---- MODULE Spec2Model ----
(***************************************************************************)
(* Model of arelle/plugin/xbrlDB/XbrlDpmSqlDB.py: storing an XBRL instance *)
(* in the DPM relational schema (insertIntoDB, insertXbrl, insertInstance, *)
(* insertDataPoints) and reading it back (loadXbrlFromDB).                 *)
(*                                                                         *)
(* Strings whose characters matter (qnames, dimension keys, fact values)   *)
(* are sequences of one-character strings.                                 *)
(***************************************************************************)
EXTENDS Integers, Sequences, FiniteSets, TLC

VARIABLES db, committed, locks, pc, modelXbrl, conn, exc, outcome, log,
          calls, pool, keyIn, keyOut, keyDec

vars == <<db, committed, locks, pc, modelXbrl, conn, exc, outcome, log,
          calls, pool, keyIn, keyOut, keyDec>>

\* ------------------------------------------------------------------------
\* Bounds
\* ------------------------------------------------------------------------
\* dimensions per context in the key codec specification
MaxDims == 2
\* facts per document in the row projection specification
MaxFacts == 2
\* insertIntoDB calls per behaviour in the database specifications
MaxCalls == 2
\* fact rows of the instance in the load specification
MaxRows == 3

\* SQL NULL / Python None
NULL == "NULL"

\* ------------------------------------------------------------------------
\* Python string primitives
\* ------------------------------------------------------------------------
\* the characters in use, in code point order
Alphabet ==
    <<" ", "(", ")", "*", "0", "1", ":", "<", ">", "A", "B", "C", "E", "M",
      "T", "a", "b", "d", "e", "f", "l", "m", "r", "s", "t", "u", "x", "y",
      "|">>

\* position of each character in code point order
CodePoints ==
    [ch \in {Alphabet[i] : i \in 1..Len(Alphabet)} |->
        CHOOSE i \in 1..Len(Alphabet) : Alphabet[i] = ch]

\* ord(ch), up to the gaps between the characters in use
Ord(ch) == CodePoints[ch]

\* s < t in Python's string order
StrLess(s, t) ==
    \E k \in 0..Len(s) :
        /\ k <= Len(t)
        /\ \A i \in 1..k : s[i] = t[i]
        /\ IF k = Len(s) THEN Len(t) > k
           ELSE k < Len(t) /\ Ord(s[k + 1]) < Ord(t[k + 1])

\* index of the first occurrence of ch in s, 0 when absent
Find(s, ch) ==
    IF \E i \in 1..Len(s) : s[i] = ch
    THEN CHOOSE i \in 1..Len(s) : s[i] = ch /\ \A j \in 1..(i - 1) : s[j] # ch
    ELSE 0

\* str.partition(ch): <<head, sep, tail>>
Partition(s, ch) ==
    LET i == Find(s, ch)
    IN  IF i = 0 THEN <<s, <<>>, <<>> >>
        ELSE <<SubSeq(s, 1, i - 1), <<ch>>, SubSeq(s, i + 1, Len(s))>>

\* str.split(ch): never empty, ''.split(ch) is ['']
RECURSIVE Split(_, _)
Split(s, ch) ==
    LET p == Partition(s, ch)
    IN  IF p[2] = <<>> THEN <<s>> ELSE <<p[1]>> \o Split(p[3], ch)

\* sep.join(parts)
RECURSIVE Join(_, _)
Join(parts, sep) ==
    IF parts = <<>> THEN <<>>
    ELSE IF Len(parts) = 1 THEN parts[1]
    ELSE parts[1] \o sep \o Join(Tail(parts), sep)

\* s[:-1]
AllButLast(s) == IF s = <<>> THEN <<>> ELSE SubSeq(s, 1, Len(s) - 1)

\* str.strip()
RECURSIVE Strip(_)
Strip(s) ==
    IF s = <<>> THEN s
    ELSE IF s[1] = " " THEN Strip(Tail(s))
    ELSE IF s[Len(s)] = " " THEN Strip(AllButLast(s))
    ELSE s

\* insertion of one string into an ascending list
RECURSIVE InsertSorted(_, _)
InsertSorted(x, sorted) ==
    IF sorted = <<>> THEN <<x>>
    ELSE IF StrLess(x, sorted[1]) THEN <<x>> \o sorted
    ELSE <<sorted[1]>> \o InsertSorted(x, Tail(sorted))

\* sorted(list of strings)
RECURSIVE Sorted(_)
Sorted(xs) ==
    IF xs = <<>> THEN <<>>
    ELSE InsertSorted(xs[Len(xs)], Sorted(AllButLast(xs)))

\* ------------------------------------------------------------------------
\* QNames
\* ------------------------------------------------------------------------
\* a QName: prefix (empty when there is none) and local name
QName(prefix, localName) == [prefix |-> prefix, localName |-> localName]

\* str(QName): prefix:localName, or localName alone
QNameStr(qn) ==
    IF qn.prefix = <<>> THEN qn.localName
    ELSE qn.prefix \o <<":">> \o qn.localName

\* qname(value, prefixedNamespaces)
qname(value) ==
    LET p == Partition(Strip(value), ":")
    IN  IF p[2] = <<>> THEN QName(<<>>, p[1]) ELSE QName(p[1], p[3])

\* ------------------------------------------------------------------------
\* Key codec: insertDataPoints writes, loadXbrlFromDB reads
\* ------------------------------------------------------------------------
\* "{}({})".format(dim.dimensionQname, member representation)
DimToken(dim, typedDim) ==
    QNameStr(dim.dimensionQname) \o <<"(">>
    \o (IF dim.isExplicit THEN QNameStr(dim.memberQname)
        ELSE IF typedDim THEN dim.typedMember
        ELSE <<"*">>)
    \o <<")">>

\* the unsorted variant: tokens joined in iteration order
dimKeyUnsorted(qnameDims, typedDim) ==
    Join([i \in 1..Len(qnameDims) |-> DimToken(qnameDims[i], typedDim)], <<"|">>)

\* dimKey(cntx, typedDim); qnameDims is cntx.qnameDims.values() in
\* iteration order
dimKey(qnameDims, typedDim) ==
    Join(Sorted([i \in 1..Len(qnameDims) |-> DimToken(qnameDims[i], typedDim)]),
         <<"|">>)

\* the context with the given id; contexts is modelXbrl.contexts.values()
ContextById(contexts, id) ==
    contexts[CHOOSE i \in 1..Len(contexts) : contexts[i].id = id]

\* contextSortedDims: context id -> dimKey, for the contexts that have
\* dimensions
contextSortedDims(contexts) ==
    [id \in {contexts[i].id : i \in {j \in 1..Len(contexts) : contexts[j].qnameDims # <<>>}} |->
        dimKey(ContextById(contexts, id).qnameDims, FALSE)]

\* met(fact)
met(fact) == <<"M", "E", "T", "(">> \o QNameStr(fact.qname) \o <<")">>

\* metDimKey(fact)
metDimKey(fact, sortedDims) ==
    IF fact.contextID \in DOMAIN sortedDims
    THEN met(fact) \o <<"|">> \o sortedDims[fact.contextID]
    ELSE met(fact)

\* typedDimElt(s): the tag and the text of a serialized typed member
typedDimElt(s) ==
    LET p1 == Partition(Tail(s), ">")
        p2 == Partition(p1[3], "<")
    IN  [tag |-> qname(p1[1]), text |-> p2[1]]

\* one "dim(member)" token of a stored key: <<dimension QName, member>>
DecodeDimToken(dim) ==
    LET p == Partition(AllButLast(dim), "(")
    IN  <<qname(p[1]),
          IF p[3] # <<>> /\ p[3][1] = "<" THEN typedDimElt(p[3]) ELSE qname(p[3])>>

\* the qnameDims dict built from the dimension part of a key: a later
\* token of the same dimension replaces the earlier one
RECURSIVE DecodeDims(_)
DecodeDims(tokens) ==
    IF tokens = <<>> THEN {}
    ELSE LET last == DecodeDimToken(tokens[Len(tokens)])
         IN  {pr \in DecodeDims(AllButLast(tokens)) : pr[1] # last[1]} \cup {last}

\* the dimension tokens: dims.split('|')
DimTokens(dims) == Split(dims, "|")

\* the concept QName and the dimension string of a stored key
DecodeDataPointKey(dpKey) ==
    LET p == Partition(dpKey, "|")
    IN  [conceptQn |-> qname(AllButLast(Partition(p[1], "(")[3])),
         dims |-> p[3],
         qnameDims |-> DecodeDims(DimTokens(p[3]))]

\* ------------------------------------------------------------------------
\* Values
\* ------------------------------------------------------------------------
\* Python values stored in the value columns: a type tag and the literal
None == [t |-> "None", v |-> <<>>]
PyStr(s) == [t |-> "str", v |-> s]
PyDecimal(s) == [t |-> "Decimal", v |-> s]
PyBool(b) == [t |-> "bool", v |-> IF b THEN <<"1">> ELSE <<"0">>]
PyDateTime(s) == [t |-> "datetime", v |-> s]
NaN == [t |-> "Decimal", v |-> <<"N", "a", "N">>]

\* the literals Decimal() accepts, over the digits in use
IsDecimalLiteral(s) == s # <<>> /\ \A i \in 1..Len(s) : s[i] \in {"0", "1"}

\* Decimal(xValue), InvalidOperation caught: Decimal('NaN')
ToDecimal(s) ==
    IF IsDecimalLiteral(Strip(s)) THEN PyDecimal(Strip(s)) ELSE NaN

\* the boolean branch: strip, then "true"/"1" and "false"/"0"
ToBool(s) ==
    LET x == Strip(s)
    IN  IF x \in {<<"t", "r", "u", "e">>, <<"1">>} THEN PyBool(TRUE)
        ELSE IF x \in {<<"f", "a", "l", "s", "e">>, <<"0">>} THEN PyBool(FALSE)
        ELSE PyStr(x)

\* ------------------------------------------------------------------------
\* insertDataPoints: classification of one fact and the rows it emits
\* ------------------------------------------------------------------------
\* isText when the datetime flag is left out
IsTextNoDateTime(isNumeric, isBool, isDateTime) == ~(isNumeric \/ isBool)

\* isText = not (isNumeric or isBool or isDateTime)
IsText(isNumeric, isBool, isDateTime) == ~(isNumeric \/ isBool \/ isDateTime)

\* the type flags and xValue of a fact; raised is the exception that leaves
\* the loop (DATEUNION is not a name of the module)
Classify(f) ==
    LET c == IF f.qname.localName = <<>> THEN "" ELSE f.qname.localName[1]
        declared == f.concept # "none"
        hinted == ~declared /\ ~f.isNil
        isNumeric == IF declared THEN f.concept = "numeric" ELSE hinted /\ c = "m"
        isBool == IF declared THEN f.concept = "boolean" ELSE hinted /\ c = "b"
        isDateTime == IF declared THEN f.concept = "dateTime" ELSE hinted /\ c = "d"
    IN  [isNumeric |-> isNumeric,
         isBool |-> isBool,
         isDateTime |-> isDateTime,
         isText |-> IsText(isNumeric, isBool, isDateTime),
         xValue |-> IF declared THEN f.xValue
                    ELSE IF f.isNil THEN None
                    ELSE IF c = "m" THEN ToDecimal(f.value)
                    ELSE IF c = "b" THEN ToBool(f.value)
                    ELSE PyStr(f.value),
         raised |-> IF hinted /\ c = "d" THEN "NameError" ELSE NULL]

\* f.context is not None
HasContext(contexts, f) == \E i \in 1..Len(contexts) : contexts[i].id = f.contextID

\* f.context
FactContext(contexts, f) == ContextById(contexts, f.contextID)

\* the variant that files every fact in the closed table
HasTypedDimNever(cntx) == FALSE

\* any(dim.isTyped for dim in cntx.qnameDims.values())
HasTypedDim(cntx) == \E i \in 1..Len(cntx.qnameDims) : cntx.qnameDims[i].isTyped

\* cntx.endDatetime.date() - datetime.timedelta(1)
PeriodEnd(cntx) == cntx.endDatetime - 1

\* a typed-value row
FactRow(f, cntx, cl, instanceId, sortedDims) ==
    [Decimals |-> f.decimals,
     VariableID |-> NULL,
     DataPointKey |-> metDimKey(f, sortedDims),
     InstanceID |-> instanceId,
     EntityID |-> cntx.entityIdentifier[2],
     DatePeriodEnd |-> PeriodEnd(cntx),
     Unit |-> f.unitID,
     NumericValue |-> IF cl.isNumeric THEN cl.xValue ELSE None,
     DateTimeValue |-> IF cl.isDateTime THEN cl.xValue ELSE None,
     BoolValue |-> IF cl.isBool THEN cl.xValue ELSE None,
     TextValue |-> IF cl.isText THEN cl.xValue ELSE None]

\* a closed-table row
CloseTableRow(f, cl, instanceId, sortedDims) ==
    [InstanceID |-> instanceId,
     MetricDimMem |-> metDimKey(f, sortedDims),
     Unit |-> f.unitID,
     Decimals |-> f.decimals,
     NumericValue |-> IF cl.isNumeric THEN cl.xValue ELSE None,
     DateTimeValue |-> IF cl.isDateTime THEN cl.xValue ELSE None,
     BoolValue |-> IF cl.isBool THEN cl.xValue ELSE None,
     TextValue |-> IF cl.isText THEN cl.xValue ELSE None,
     InstanceIdMetricDimMemHash |-> NULL]

\* a processing row
ProcessingRow(f, cntx, instanceId) ==
    [InstanceID |-> instanceId,
     Metric |-> met(f),
     ContextID |-> cntx.id,
     ValueTxt |-> f.value,
     ValueDecimal |-> f.decimals,
     ValueDate |-> PeriodEnd(cntx),
     Error |-> NULL]

\* one pass of the loop body: the rows one fact appends to the three lists
EmitFact(f, contexts, instanceId, sortedDims) ==
    LET cl == Classify(f)
        cntx == FactContext(contexts, f)
    IN  IF cl.raised # NULL
        THEN [dFacts |-> <<>>, dCloseTableFacts |-> <<>>,
              dProcessingFacts |-> <<>>, raised |-> cl.raised]
        ELSE IF ~HasContext(contexts, f)
        THEN [dFacts |-> <<>>, dCloseTableFacts |-> <<>>,
              dProcessingFacts |-> <<>>, raised |-> NULL]
        ELSE [dFacts |-> <<FactRow(f, cntx, cl, instanceId, sortedDims)>>,
              dCloseTableFacts |->
                  IF HasTypedDim(cntx) THEN <<>>
                  ELSE <<CloseTableRow(f, cl, instanceId, sortedDims)>>,
              dProcessingFacts |-> <<ProcessingRow(f, cntx, instanceId)>>,
              raised |-> NULL]

\* for f in self.modelXbrl.factsInInstance: the three lists, or the
\* exception that ended the loop
RECURSIVE EmitFacts(_, _, _, _)
EmitFacts(facts, contexts, instanceId, sortedDims) ==
    IF facts = <<>>
    THEN [dFacts |-> <<>>, dCloseTableFacts |-> <<>>,
          dProcessingFacts |-> <<>>, raised |-> NULL]
    ELSE LET head == EmitFacts(AllButLast(facts), contexts, instanceId, sortedDims)
             e == EmitFact(facts[Len(facts)], contexts, instanceId, sortedDims)
         IN  IF head.raised # NULL THEN head
             ELSE [dFacts |-> head.dFacts \o e.dFacts,
                   dCloseTableFacts |-> head.dCloseTableFacts \o e.dCloseTableFacts,
                   dProcessingFacts |-> head.dProcessingFacts \o e.dProcessingFacts,
                   raised |-> e.raised]

\* ------------------------------------------------------------------------
\* The relational connection (SqlDbConnection)
\* ------------------------------------------------------------------------
\* XBRLDBTABLES
XBRLDBTABLES ==
    {"dAvailableTable", "dCloseTableFact", "dOpenTableSheetsRow",
     "dProcessingContext", "dProcessingFact"}

\* the tables of a complete DPM database
AllTables == XBRLDBTABLES \cup {"Module", "Instance", "Fact", "DataPointVariable"}

\* the names a table lock can be asked for
LockNames == AllTables \cup {"dCloseFactTable"}

\* the next generated id of a table
NextId(rows, idCol) ==
    IF rows = <<>> THEN 1
    ELSE 1 + (CHOOSE n \in {rows[i][idCol] : i \in 1..Len(rows)} :
                  \A i \in 1..Len(rows) : rows[i][idCol] <= n)

\* a row with its generated id column
WithId(d, idCol, id) ==
    [col \in DOMAIN d \cup {idCol} |-> IF col = idCol THEN id ELSE d[col]]

\* getTable(table, idCol, newCols, matchCols, data, checkIfExisting,
\* returnExistenceStatus): get-or-insert of the data rows; a row that
\* matches a stored row on matchCols is not inserted when checkIfExisting;
\* the result carries, per data row, the id and the existence status
RECURSIVE GetTable(_, _, _, _, _)
GetTable(rows, idCol, matchCols, data, checkIfExisting) ==
    IF data = <<>> THEN [rows |-> rows, result |-> <<>>]
    ELSE LET head == GetTable(rows, idCol, matchCols, AllButLast(data), checkIfExisting)
             d == data[Len(data)]
             matches == {i \in 1..Len(head.rows) :
                            \A m \in matchCols : head.rows[i][m] = d[m]}
             first == CHOOSE i \in matches : \A j \in matches : i <= j
             newId == IF idCol = NULL THEN 0 ELSE NextId(head.rows, idCol)
         IN  IF checkIfExisting /\ matches # {}
             THEN [rows |-> head.rows,
                   result |-> Append(head.result,
                       [id |-> IF idCol = NULL THEN 0 ELSE head.rows[first][idCol],
                        existenceStatus |-> TRUE])]
             ELSE [rows |-> Append(head.rows,
                                   IF idCol = NULL THEN d ELSE WithId(d, idCol, newId)),
                   result |-> Append(head.result,
                       [id |-> newId, existenceStatus |-> FALSE])]

\* DELETE FROM table WHERE table.InstanceID = instanceId
DeleteInstanceRows(rows, instanceId) ==
    SelectSeq(rows, LAMBDA r : r.InstanceID # instanceId)

\* SELECT ... FROM table WHERE InstanceID = instanceId
InstanceRows(rows, instanceId) ==
    SelectSeq(rows, LAMBDA r : r.InstanceID = instanceId)

\* a row without its generated id column
WithoutId(r, idCol) == [col \in DOMAIN r \ {idCol} |-> r[col]]

\* the database with no row stored
EmptyDb(tables) ==
    [tables |-> tables,
     Module |-> <<>>, Instance |-> <<>>, Fact |-> <<>>,
     dCloseTableFact |-> <<>>, dOpenTableSheetsRow |-> <<>>,
     dProcessingContext |-> <<>>, dProcessingFact |-> <<>>]

\* no table locked
NoLocks == [n \in LockNames |-> 0]

\* the locks of caller c released
Released(lk, c) == [n \in LockNames |-> IF lk[n] = c THEN 0 ELSE lk[n]]

\* caller c has an open transaction that wrote
InTransaction(lk, c) == \E n \in LockNames : lk[n] = c

\* ------------------------------------------------------------------------
\* Callers
\* ------------------------------------------------------------------------
Callers == {1, 2}

\* a connection object before the constructor ran
NoConn ==
    [state |-> "none", mode |-> "insert", loadFile |-> NULL,
     instanceId |-> 0, instancePreviouslyInDB |-> FALSE, stmt |-> 1,
     dFacts |-> <<>>, dCloseTableFacts |-> <<>>, dProcessingFacts |-> <<>>,
     loaded |-> [contexts |-> <<>>, facts |-> <<>>]]

NoOutcome == [kind |-> "none", value |-> NULL]

\* a log entry: the operation and the table or exception it names
Logged(c, entries) == [log EXCEPT ![c] = @ \o entries]

\* the exception leaves the try block of insertIntoDB
Raise(c, name) ==
    /\ exc' = [exc EXCEPT ![c] = name]
    /\ log' = Logged(c, << <<"RAISE", name>> >>)
    /\ pc' = [pc EXCEPT ![c] = "except"]

\* ------------------------------------------------------------------------
\* Documents (modelXbrl)
\* ------------------------------------------------------------------------
ExplicitDim(d, m) ==
    [dimensionQname |-> d, isExplicit |-> TRUE, isTyped |-> FALSE,
     memberQname |-> m, typedMember |-> <<>>]

TypedDim(d, xml) ==
    [dimensionQname |-> d, isExplicit |-> FALSE, isTyped |-> TRUE,
     memberQname |-> QName(<<>>, <<>>), typedMember |-> xml]

Context(id, qnameDims) ==
    [id |-> id, isInstantPeriod |-> TRUE, entityIdentifier |-> <<"lei", "e1">>,
     endDatetime |-> 10, qnameDims |-> qnameDims]

\* f.xValue of a fact with a declared concept: the validated typed value
TypedValue(kind, isNil, value) ==
    IF isNil THEN None
    ELSE IF kind = "numeric" THEN PyDecimal(value)
    ELSE IF kind = "boolean" THEN ToBool(value)
    ELSE IF kind = "dateTime" THEN PyDateTime(value)
    ELSE PyStr(value)

Fact(qn, kind, isNil, value, contextID) ==
    [qname |-> qn, concept |-> kind, isNil |-> isNil, value |-> value,
     xValue |-> IF kind = "none" THEN None ELSE TypedValue(kind, isNil, value),
     contextID |-> contextID,
     decimals |-> IF kind = "numeric" THEN "2" ELSE NULL,
     unitID |-> IF kind = "numeric" THEN "EUR" ELSE NULL]

eA == QName(<<"e">>, <<"A">>)
eB == QName(<<"e">>, <<"B">>)
eC == QName(<<"e">>, <<"C">>)
ex == QName(<<"e">>, <<"x">>)
ey == QName(<<"e">>, <<"y">>)

\* the contexts of a document: no dimension, two explicit dimensions, one
\* typed dimension, a typed and an explicit dimension
StdContexts ==
    <<Context("c0", <<>>),
      Context("c1", <<ExplicitDim(eB, ex), ExplicitDim(eA, ey)>>),
      Context("c2", <<TypedDim(eC, <<"<", "e", ":", "t", ">", "1", "<", ">">>)>>),
      Context("c3", <<TypedDim(eC, <<"<", "e", ":", "t", ">", "1", "<", ">">>),
                      ExplicitDim(eA, ex)>>)>>

Document(uri, moduleURI, facts) ==
    [uri |-> uri, moduleURI |-> moduleURI, hasDoc |-> TRUE,
     contexts |-> StdContexts, facts |-> facts, blockDpmDBrecursion |-> FALSE]

\* a model with no document loaded (modelDocument is None)
EmptyModel ==
    [uri |-> "", moduleURI |-> "", hasDoc |-> FALSE,
     contexts |-> <<>>, facts |-> <<>>, blockDpmDBrecursion |-> FALSE]

FileNames == {"a.xbrl", "b.xbrl"}
ModuleURIs == {"modA", "modB"}

\* facts of the documents stored in the database specifications
FNum == Fact(QName(<<"e">>, <<"m", "x">>), "numeric", FALSE, <<"1", "0">>, "c1")
FTxt == Fact(QName(<<"e">>, <<"s", "x">>), "string", FALSE, <<"a", "b">>, "c2")
FDate == Fact(QName(<<"e">>, <<"d", "x">>), "none", FALSE, <<"1">>, "c0")

DbFactLists == {<<>>, <<FNum>>, <<FTxt>>, <<FNum, FTxt>>, <<FDate>>}

DbDocs ==
    {Document(u, m, fs) : u \in FileNames, m \in ModuleURIs, fs \in DbFactLists}
    \cup {EmptyModel}

\* ------------------------------------------------------------------------
\* insertIntoDB
\* ------------------------------------------------------------------------
\* the exception the caller of insertIntoDB receives when close(rollback=
\* True) raised ex2: the variant that lets ex2 replace the original
ReraisedLast(original, ex2) == IF ex2 # NULL THEN ex2 ELSE original

\* except Exception as ex2: pass; raise
Reraised(original, ex2) == original

\* the guard that lets every call through
BlockedNever(m) == FALSE

\* getattr(modelXbrl, "blockDpmDBrecursion", False)
Blocked(m) == m.blockDpmDBrecursion

\* insertIntoDB(modelXbrl, ..., loadDBsaveToFile): the recursion guard and
\* the connection constructor
insertIntoDB(c) ==
    /\ pc[c] = "idle"
    /\ calls < MaxCalls
    /\ calls' = calls + 1
    /\ \E file \in {NULL} \cup FileNames :
       \E m \in (IF file = NULL THEN pool ELSE {EmptyModel}) \cup {modelXbrl[c]} :
          /\ modelXbrl' = [modelXbrl EXCEPT ![c] = m]
          /\ exc' = [exc EXCEPT ![c] = NULL]
          /\ IF Blocked(m)
             THEN /\ outcome' = [outcome EXCEPT ![c] = [kind |-> "return", value |-> "None"]]
                  /\ conn' = [conn EXCEPT ![c] = NoConn]
                  /\ log' = [log EXCEPT ![c] = <<>>]
                  /\ pc' = pc
             ELSE \/ /\ conn' = [conn EXCEPT ![c] =
                                    [NoConn EXCEPT !.state = "open",
                                                   !.mode = IF file = NULL THEN "insert" ELSE "load",
                                                   !.loadFile = file]]
                     /\ outcome' = [outcome EXCEPT ![c] = NoOutcome]
                     /\ log' = [log EXCEPT ![c] = <<>>]
                     /\ pc' = [pc EXCEPT ![c] = "verifyTables"]
                  \/ /\ conn' = [conn EXCEPT ![c] = NoConn]
                     /\ outcome' = [outcome EXCEPT ![c] =
                                       [kind |-> "raise", value |-> "ConnectError"]]
                     /\ log' = [log EXCEPT ![c] = <<>>]
                     /\ pc' = pc
    /\ UNCHANGED <<db, committed, locks, pool, keyIn, keyOut, keyDec>>

\* the check of verifyTables, inverted on the tolerated set
MissingTablesInverted(missingTables) ==
    missingTables # {} /\ missingTables = {"sequences"}

\* missingTables and missingTables != {"sequences"}
MissingTables(missingTables) ==
    missingTables # {} /\ missingTables # {"sequences"}

\* verifyTables
verifyTables(c) ==
    /\ pc[c] = "verifyTables"
    /\ IF MissingTables(XBRLDBTABLES \ db.tables)
       THEN Raise(c, "sqlDB:MissingTables")
       ELSE /\ pc' = [pc EXCEPT ![c] =
                         IF conn[c].mode = "load" THEN "loadXbrlFromDB" ELSE "insertXbrl"]
            /\ UNCHANGED <<exc, log>>
    /\ UNCHANGED <<db, committed, locks, modelXbrl, conn, outcome, calls, pool,
                   keyIn, keyOut, keyDec>>

\* insertXbrl: the document check
insertXbrl(c) ==
    /\ pc[c] = "insertXbrl"
    /\ IF ~modelXbrl[c].hasDoc
       THEN Raise(c, "xpgDB:MissingXbrlDocument")
       ELSE /\ pc' = [pc EXCEPT ![c] = "lockTables"]
            /\ UNCHANGED <<exc, log>>
    /\ UNCHANGED <<db, committed, locks, modelXbrl, conn, outcome, calls, pool,
                   keyIn, keyOut, keyDec>>

\* the tables insertXbrl asks a lock for
LockedTables ==
    <<"dAvailableTable", "dCloseFactTable", "dOpenTableSheetsRow",
      "dProcessingContext", "dProcessingFact">>

\* the locks once caller c holds the tables of the lock list
Locked(lk, c) ==
    [n \in LockNames |->
        IF \E i \in 1..Len(LockedTables) : LockedTables[i] = n THEN c ELSE lk[n]]

\* the log entries of lockTables
LockLog == [i \in 1..Len(LockedTables) |-> <<"LOCK", LockedTables[i]>>]

\* insertXbrl: lockTables, granted when no other caller holds one of them
lockTables(c) ==
    /\ pc[c] = "lockTables"
    /\ \A i \in 1..Len(LockedTables) : locks[LockedTables[i]] \in {0, c}
    /\ locks' = Locked(locks, c)
    /\ log' = Logged(c, LockLog)
    /\ pc' = [pc EXCEPT ![c] = "insertInstance"]
    /\ UNCHANGED <<db, committed, modelXbrl, conn, exc, outcome, calls, pool,
                   keyIn, keyOut, keyDec>>

\* the match columns of the Instance lookup
InstanceMatchCols == {"ModuleID"}

\* the entity code and period of the last instant context
LastInstant(contexts) ==
    LET idx == {i \in 1..Len(contexts) : contexts[i].isInstantPeriod}
        last == CHOOSE i \in idx : \A j \in idx : j <= i
    IN  IF idx = {} THEN [entityCode |-> NULL, period |-> 0]
        ELSE [entityCode |-> contexts[last].entityIdentifier[2],
              period |-> PeriodEnd(contexts[last])]

\* insertInstance: the Module by URI, the Instance, instanceId and
\* instancePreviouslyInDB (the load timestamp and the columns stored as
\* None are left out of the Instance row)
InstanceUpsert(d, m) ==
    LET mod == GetTable(d.Module, "ModuleID", {"URI"},
                        << [TaxonomyID |-> NULL, URI |-> m.moduleURI] >>, TRUE)
        moduleId == mod.result[1].id
        li == LastInstant(m.contexts)
        inst == GetTable(d.Instance, "InstanceID", InstanceMatchCols,
                         << [ModuleID |-> moduleId, FileName |-> m.uri,
                             EntityCode |-> li.entityCode, Period |-> li.period] >>,
                         TRUE)
    IN  [db |-> [d EXCEPT !.Module = mod.rows, !.Instance = inst.rows],
         instanceId |-> inst.result[1].id,
         instancePreviouslyInDB |-> inst.result[1].existenceStatus]

\* the log entries of insertInstance
InstanceUpsertLog == << <<"UPSERT", "Module">>, <<"UPSERT", "Instance">> >>

insertInstance(c) ==
    /\ pc[c] = "insertInstance"
    /\ LET r == InstanceUpsert(db, modelXbrl[c])
       IN  /\ db' = r.db
           /\ conn' = [conn EXCEPT ![c].instanceId = r.instanceId,
                                   ![c].instancePreviouslyInDB = r.instancePreviouslyInDB]
    /\ log' = Logged(c, InstanceUpsertLog)
    /\ pc' = [pc EXCEPT ![c] = "insertDataPoints"]
    /\ UNCHANGED <<committed, locks, modelXbrl, exc, outcome, calls, pool,
                   keyIn, keyOut, keyDec>>

\* the purge that leaves the processing facts in place
PurgedTablesShort ==
    <<"dCloseTableFact", "dOpenTableSheetsRow", "dProcessingContext">>

\* the tables insertDataPoints deletes the prior rows of, in order
PurgedTables ==
    <<"dCloseTableFact", "dOpenTableSheetsRow", "dProcessingContext",
      "dProcessingFact">>

\* the purge that does not look at the existence status
PurgeAlways(c) == TRUE

\* if self.instancePreviouslyInDB
Purge(c) == conn[c].instancePreviouslyInDB

\* insertDataPoints: the next DELETE of the prior rows of this instance
deletePriorDataPoints(c) ==
    /\ pc[c] = "insertDataPoints"
    /\ Purge(c)
    /\ conn[c].stmt <= Len(PurgedTables)
    /\ LET t == PurgedTables[conn[c].stmt]
       IN  /\ db' = [db EXCEPT ![t] = DeleteInstanceRows(@, conn[c].instanceId)]
           /\ log' = Logged(c, << <<"DELETE", t>> >>)
    /\ conn' = [conn EXCEPT ![c].stmt = @ + 1]
    /\ UNCHANGED <<committed, locks, pc, modelXbrl, exc, outcome, calls, pool,
                   keyIn, keyOut, keyDec>>

\* the dProcessingContext rows, one per context with dimensions
ProcessingContextRows(contexts, instanceId) ==
    LET sortedDims == contextSortedDims(contexts)
        withDims == SelectSeq(contexts, LAMBDA cx : cx.id \in DOMAIN sortedDims)
    IN  [i \in 1..Len(withDims) |->
            [InstanceID |-> instanceId, ContextID |-> withDims[i].id,
             SortedDimensions |-> sortedDims[withDims[i].id], NotValid |-> FALSE]]

\* insertDataPoints: contextSortedDims and the dProcessingContext rows
insertProcessingContexts(c) ==
    /\ pc[c] = "insertDataPoints"
    /\ Purge(c) => conn[c].stmt > Len(PurgedTables)
    /\ db' = [db EXCEPT !.dProcessingContext =
                 GetTable(@, NULL, {"InstanceID", "ContextID"},
                          ProcessingContextRows(modelXbrl[c].contexts, conn[c].instanceId),
                          FALSE).rows]
    /\ log' = Logged(c, << <<"INSERT", "dProcessingContext">> >>)
    /\ pc' = [pc EXCEPT ![c] = "factRows"]
    /\ UNCHANGED <<committed, locks, modelXbrl, conn, exc, outcome, calls, pool,
                   keyIn, keyOut, keyDec>>

\* insertDataPoints: the loop over factsInInstance
buildFactRows(c) ==
    /\ pc[c] = "factRows"
    /\ LET e == EmitFacts(modelXbrl[c].facts, modelXbrl[c].contexts,
                          conn[c].instanceId,
                          contextSortedDims(modelXbrl[c].contexts))
       IN  IF e.raised # NULL
           THEN /\ Raise(c, e.raised)
                /\ conn' = conn
           ELSE /\ conn' = [conn EXCEPT ![c].dFacts = e.dFacts,
                                        ![c].dCloseTableFacts = e.dCloseTableFacts,
                                        ![c].dProcessingFacts = e.dProcessingFacts]
                /\ pc' = [pc EXCEPT ![c] = "insertFact"]
                /\ UNCHANGED <<exc, log>>
    /\ UNCHANGED <<db, committed, locks, modelXbrl, outcome, calls, pool,
                   keyIn, keyOut, keyDec>>

\* insertDataPoints: getTable("Fact", ...)
insertFactTable(c) ==
    /\ pc[c] = "insertFact"
    /\ db' = [db EXCEPT !.Fact =
                 GetTable(@, "FactID", {"InstanceID"}, conn[c].dFacts, FALSE).rows]
    /\ log' = Logged(c, << <<"INSERT", "Fact">> >>)
    /\ pc' = [pc EXCEPT ![c] = "insertCloseTableFact"]
    /\ UNCHANGED <<committed, locks, modelXbrl, conn, exc, outcome, calls, pool,
                   keyIn, keyOut, keyDec>>

\* insertDataPoints: getTable("dCloseTableFact", ...)
insertCloseTableFact(c) ==
    /\ pc[c] = "insertCloseTableFact"
    /\ db' = [db EXCEPT !.dCloseTableFact =
                 GetTable(@, NULL, {"InstanceID"}, conn[c].dCloseTableFacts, FALSE).rows]
    /\ log' = Logged(c, << <<"INSERT", "dCloseTableFact">> >>)
    /\ pc' = [pc EXCEPT ![c] = "insertProcessingFact"]
    /\ UNCHANGED <<committed, locks, modelXbrl, conn, exc, outcome, calls, pool,
                   keyIn, keyOut, keyDec>>

\* insertDataPoints: getTable("dProcessingFact", ...)
insertProcessingFact(c) ==
    /\ pc[c] = "insertProcessingFact"
    /\ db' = [db EXCEPT !.dProcessingFact =
                 GetTable(@, NULL, {"InstanceID"}, conn[c].dProcessingFacts, FALSE).rows]
    /\ log' = Logged(c, << <<"INSERT", "dProcessingFact">> >>)
    /\ pc' = [pc EXCEPT ![c] = "commit"]
    /\ UNCHANGED <<committed, locks, modelXbrl, conn, exc, outcome, calls, pool,
                   keyIn, keyOut, keyDec>>

\* insertXbrl: self.commit(); the transaction's table locks end with it
commit(c) ==
    /\ pc[c] = "commit"
    /\ committed' = db
    /\ locks' = Released(locks, c)
    /\ log' = Logged(c, << <<"COMMIT", "">> >>)
    /\ pc' = [pc EXCEPT ![c] = "close"]
    /\ UNCHANGED <<db, modelXbrl, conn, exc, outcome, calls, pool,
                   keyIn, keyOut, keyDec>>

\* insertIntoDB: xbrlDbConn.close() and return result
close(c) ==
    /\ pc[c] = "close"
    /\ conn' = [conn EXCEPT ![c].state = "closed"]
    /\ log' = Logged(c, << <<"CLOSE", "">> >>)
    /\ outcome' = [outcome EXCEPT ![c] =
                      [kind |-> "return",
                       value |-> IF conn[c].mode = "load" THEN "modelDocument" ELSE "None"]]
    /\ pc' = [pc EXCEPT ![c] = "idle"]
    /\ UNCHANGED <<db, committed, locks, modelXbrl, exc, calls, pool,
                   keyIn, keyOut, keyDec>>

\* the positions at which a statement is sent to the database
DbSteps ==
    {"verifyTables", "lockTables", "insertInstance", "insertDataPoints",
     "insertFact", "insertCloseTableFact", "insertProcessingFact", "commit",
     "close", "loadXbrlFromDB", "loadFacts"}

\* the database raises on the statement caller c sends next
dbFailure(c) ==
    /\ pc[c] \in DbSteps
    /\ Raise(c, "DbError")
    /\ UNCHANGED <<db, committed, locks, modelXbrl, conn, outcome, calls, pool,
                   keyIn, keyOut, keyDec>>

\* insertIntoDB: except Exception: close(rollback=True), which may raise
\* ex2 itself; the work of the open transaction is undone either way
\* (a session that ends without commit is rolled back by the server)
exceptRollback(c) ==
    /\ pc[c] = "except"
    /\ \E ex2 \in {NULL, "CloseError"} :
          /\ log' = Logged(c, IF ex2 = NULL
                              THEN << <<"ROLLBACK", "">>, <<"CLOSE", "">> >>
                              ELSE << <<"ROLLBACK", ex2>> >>)
          /\ outcome' = [outcome EXCEPT ![c] =
                            [kind |-> "raise", value |-> Reraised(exc[c], ex2)]]
    /\ db' = IF InTransaction(locks, c) THEN committed ELSE db
    /\ locks' = Released(locks, c)
    /\ conn' = [conn EXCEPT ![c].state = "closed"]
    /\ pc' = [pc EXCEPT ![c] = "idle"]
    /\ UNCHANGED <<committed, modelXbrl, exc, calls, pool, keyIn, keyOut, keyDec>>

\* ------------------------------------------------------------------------
\* loadXbrlFromDB
\* ------------------------------------------------------------------------
\* loadXbrlFromDB: the instance by file name and its module; MissingDTS, or
\* the recursion block set and the instance document created
loadXbrlFromDB(c) ==
    /\ pc[c] = "loadXbrlFromDB"
    /\ LET found == SelectSeq(db.Instance, LAMBDA r : r.FileName = conn[c].loadFile)
           mods == IF found = <<>> THEN <<>>
                   ELSE SelectSeq(db.Module, LAMBDA r : r.ModuleID = found[1].ModuleID)
       IN  IF found = <<>> \/ mods = <<>>
           THEN /\ Raise(c, "sqlDB:MissingDTS")
                /\ UNCHANGED <<modelXbrl, conn>>
           ELSE /\ modelXbrl' = [modelXbrl EXCEPT ![c].blockDpmDBrecursion = TRUE,
                                                  ![c].hasDoc = TRUE,
                                                  ![c].uri = conn[c].loadFile,
                                                  ![c].moduleURI = mods[1].URI]
                /\ conn' = [conn EXCEPT ![c].instanceId = found[1].InstanceID]
                /\ pc' = [pc EXCEPT ![c] = "loadFacts"]
                /\ UNCHANGED <<exc, log>>
    /\ UNCHANGED <<db, committed, locks, outcome, calls, pool, keyIn, keyOut, keyDec>>

\* the context key without the period end
CntxKeyNoDate(row) ==
    <<DecodeDataPointKey(row.DataPointKey).dims, row.EntityID, 0>>

\* cntxKey = (dims, entId, datePerEnd)
CntxKey(row) ==
    <<DecodeDataPointKey(row.DataPointKey).dims, row.EntityID, row.DatePeriodEnd>>

\* the contexts and facts created from the fact rows, in row order; a
\* context id 'c<k>' is the number k
RECURSIVE LoadRows(_)
LoadRows(rows) ==
    IF rows = <<>> THEN [contexts |-> <<>>, facts |-> <<>>]
    ELSE LET head == LoadRows(AllButLast(rows))
             row == rows[Len(rows)]
             key == DecodeDataPointKey(row.DataPointKey)
             known == {i \in 1..Len(head.contexts) : head.contexts[i].key = CntxKey(row)}
             cntxId == IF known # {} THEN head.contexts[CHOOSE i \in known : TRUE].id
                       ELSE Len(head.contexts) + 1
         IN  [contexts |->
                 IF known # {} THEN head.contexts
                 ELSE Append(head.contexts,
                             [id |-> cntxId, key |-> CntxKey(row),
                              qnameDims |-> key.qnameDims]),
              facts |-> Append(head.facts,
                               [conceptQn |-> key.conceptQn, contextRef |-> cntxId])]

\* loadXbrlFromDB: the fact rows of the instance become contexts and facts
loadFacts(c) ==
    /\ pc[c] = "loadFacts"
    /\ conn' = [conn EXCEPT ![c].loaded =
                   LoadRows(InstanceRows(db.Fact, conn[c].instanceId))]
    /\ pc' = [pc EXCEPT ![c] = "close"]
    /\ UNCHANGED <<db, committed, locks, modelXbrl, exc, outcome, log, calls, pool,
                   keyIn, keyOut, keyDec>>

\* ------------------------------------------------------------------------
\* The key codec on its own
\* ------------------------------------------------------------------------
\* no key written yet
NoKey == [sortedDims |-> <<>>, key |-> <<>>]

\* insertDataPoints writes the key of a fact of a context
encodeKey ==
    /\ keyOut = NoKey
    /\ LET contexts == << Context("c1", keyIn.qnameDims) >>
           f == Fact(keyIn.metric, "numeric", FALSE, <<"1">>, "c1")
           sortedDims == contextSortedDims(contexts)
       IN  keyOut' = [sortedDims |-> IF "c1" \in DOMAIN sortedDims
                                     THEN <<sortedDims["c1"]>> ELSE <<>>,
                      key |-> <<metDimKey(f, sortedDims)>>]
    /\ UNCHANGED <<db, committed, locks, pc, modelXbrl, conn, exc, outcome, log,
                   calls, pool, keyIn, keyDec>>

\* loadXbrlFromDB reads the key back
decodeKey ==
    /\ keyOut # NoKey
    /\ keyDec = <<>>
    /\ keyDec' = <<DecodeDataPointKey(keyOut.key[1])>>
    /\ UNCHANGED <<db, committed, locks, pc, modelXbrl, conn, exc, outcome, log,
                   calls, pool, keyIn, keyOut>>

\* ------------------------------------------------------------------------
\* Specifications
\* ------------------------------------------------------------------------
\* the key codec variables at rest
KeyIdle ==
    /\ keyIn = [metric |-> QName(<<>>, <<>>), qnameDims |-> <<>>]
    /\ keyOut = NoKey
    /\ keyDec = <<>>

\* the callers at rest on a database that holds no row
Init ==
    /\ \E tables \in {AllTables, AllTables \ {"dProcessingFact"}} :
          db = EmptyDb(tables)
    /\ committed = db
    /\ locks = NoLocks
    /\ pc = [c \in Callers |-> "idle"]
    /\ modelXbrl = [c \in Callers |-> EmptyModel]
    /\ conn = [c \in Callers |-> NoConn]
    /\ exc = [c \in Callers |-> NULL]
    /\ outcome = [c \in Callers |-> NoOutcome]
    /\ log = [c \in Callers |-> <<>>]
    /\ calls = 0
    /\ pool = DbDocs
    /\ KeyIdle

\* one step of caller c
Step(c) ==
    \/ insertIntoDB(c)
    \/ verifyTables(c)
    \/ insertXbrl(c)
    \/ lockTables(c)
    \/ insertInstance(c)
    \/ deletePriorDataPoints(c)
    \/ insertProcessingContexts(c)
    \/ buildFactRows(c)
    \/ insertFactTable(c)
    \/ insertCloseTableFact(c)
    \/ insertProcessingFact(c)
    \/ commit(c)
    \/ close(c)
    \/ dbFailure(c)
    \/ exceptRollback(c)
    \/ loadXbrlFromDB(c)
    \/ loadFacts(c)

\* one caller at a time
Next == \E c \in {1} : Step(c)

Spec == Init /\ [][Next]_vars

\* two callers with a connection each on the same database
ConcDocs ==
    {Document("a.xbrl", "modA", <<FNum>>), Document("b.xbrl", "modA", <<FTxt>>)}

InitConc ==
    /\ db = EmptyDb(AllTables)
    /\ committed = db
    /\ locks = NoLocks
    /\ pc = [c \in Callers |-> "idle"]
    /\ modelXbrl = [c \in Callers |-> EmptyModel]
    /\ conn = [c \in Callers |-> NoConn]
    /\ exc = [c \in Callers |-> NULL]
    /\ outcome = [c \in Callers |-> NoOutcome]
    /\ log = [c \in Callers |-> <<>>]
    /\ calls = 0
    /\ pool = ConcDocs
    /\ KeyIdle

NextConc == \E c \in Callers : Step(c)

SpecConc == InitConc /\ [][NextConc]_vars

\* the facts of the row projection: every classification in a context with
\* explicit dimensions, and one classification in every kind of context
RowFacts ==
    {Fact(QName(<<"e">>, <<"s", "x">>), k, n, <<"1", "0">>, "c1") :
        k \in {"numeric", "boolean", "dateTime", "string"}, n \in BOOLEAN}
    \cup {Fact(QName(<<"e">>, <<l, "x">>), "none", TRUE, <<>>, "c1") : l \in {"m", "s"}}
    \cup {Fact(QName(<<"e">>, <<"m", "x">>), "none", FALSE, v, "c1") :
             v \in {<<"1", "0">>, <<"a", "b">>}}
    \cup {Fact(QName(<<"e">>, <<"b", "x">>), "none", FALSE, v, "c1") :
             v \in {<<" ", "t", "r", "u", "e">>, <<"0">>, <<"y", "e", "s">>}}
    \cup {Fact(QName(<<"e">>, <<l, "x">>), "none", FALSE, <<"1">>, "c1") : l \in {"d", "s"}}
    \cup {Fact(QName(<<"e">>, <<"m", "x">>), "numeric", FALSE, <<"1">>, cx) :
             cx \in {NULL, "c0", "c2", "c3"}}
    \cup {Fact(QName(<<"e">>, <<"s", "x">>), "none", FALSE, <<"a", "b">>, "c2")}

\* the documents of the row projection
RowDocs ==
    {Document("a.xbrl", "modA", fs) :
        fs \in UNION {[1..n -> RowFacts] : n \in 0..MaxFacts}}

\* a caller that has stored the Instance of its document in an empty
\* database and is about to insert the data points
InitRows ==
    /\ \E m \in RowDocs :
          LET r == InstanceUpsert(EmptyDb(AllTables), m)
          IN  /\ modelXbrl = [c \in Callers |-> IF c = 1 THEN m ELSE EmptyModel]
              /\ db = r.db
              /\ conn = [c \in Callers |->
                            IF c = 1
                            THEN [NoConn EXCEPT !.state = "open",
                                                !.instanceId = r.instanceId,
                                                !.instancePreviouslyInDB =
                                                    r.instancePreviouslyInDB]
                            ELSE NoConn]
    /\ committed = EmptyDb(AllTables)
    /\ locks = Locked(NoLocks, 1)
    /\ pc = [c \in Callers |-> IF c = 1 THEN "insertDataPoints" ELSE "idle"]
    /\ exc = [c \in Callers |-> NULL]
    /\ outcome = [c \in Callers |-> NoOutcome]
    /\ log = [c \in Callers |-> IF c = 1 THEN LockLog \o InstanceUpsertLog ELSE <<>>]
    /\ calls = 1
    /\ pool = {}
    /\ KeyIdle

NextRows == \E c \in {1} : insertProcessingContexts(c) \/ buildFactRows(c)

SpecRows == InitRows /\ [][NextRows]_vars

\* the dimension values of the key codec
KeyDimQNames == {eA, eB, QName(<<"f">>, <<"A">>), QName(<<"e">>, <<"A", "B">>)}

KeyDims ==
    {ExplicitDim(d, m) : d \in KeyDimQNames, m \in {ex, ey}}
    \cup {TypedDim(d, <<"<", "e", ":", "t", ">", "1", "<", ">">>) : d \in KeyDimQNames}

\* the dimension maps of a context in every iteration order: a dimension
\* has one value in a context
KeyQNameDims ==
    {s \in UNION {[1..n -> KeyDims] : n \in 0..MaxDims} :
        \A i, j \in 1..Len(s) : i # j => s[i].dimensionQname # s[j].dimensionQname}

KeyMetrics == {QName(<<"e">>, <<"m", "x">>), QName(<<>>, <<"s">>)}

InitKey ==
    /\ db = EmptyDb(AllTables)
    /\ committed = db
    /\ locks = NoLocks
    /\ pc = [c \in Callers |-> "idle"]
    /\ modelXbrl = [c \in Callers |-> EmptyModel]
    /\ conn = [c \in Callers |-> NoConn]
    /\ exc = [c \in Callers |-> NULL]
    /\ outcome = [c \in Callers |-> NoOutcome]
    /\ log = [c \in Callers |-> <<>>]
    /\ calls = 0
    /\ pool = {}
    /\ keyIn \in [metric : KeyMetrics, qnameDims : KeyQNameDims]
    /\ keyOut = NoKey
    /\ keyDec = <<>>

NextKey == encodeKey \/ decodeKey

SpecKey == InitKey /\ [][NextKey]_vars

\* the fact rows of the load: a metric under every dimension string, entity
\* and period end
LoadFactRows ==
    {LET cx == [Context("c1", dims) EXCEPT !.entityIdentifier = <<"lei", e>>,
                                           !.endDatetime = d]
     IN  FactRow(FNum, cx, Classify(FNum), 1, contextSortedDims(<<cx>>)) :
        dims \in {<<>>, <<ExplicitDim(eB, ex), ExplicitDim(eA, ey)>>,
                  <<ExplicitDim(eA, ex)>>},
        e \in {"e1", "e2"},
        d \in {10, 11}}

\* a caller that found the instance of a.xbrl and its module and is about
\* to read the fact rows of the instance
InitLoad ==
    /\ \E rows \in UNION {[1..n -> LoadFactRows] : n \in 0..MaxRows} :
          db = [EmptyDb(AllTables) EXCEPT
                   !.Module = << [ModuleID |-> 1, TaxonomyID |-> NULL, URI |-> "modA"] >>,
                   !.Instance = << [InstanceID |-> 1, ModuleID |-> 1,
                                    FileName |-> "a.xbrl", EntityCode |-> "e1",
                                    Period |-> 9] >>,
                   !.Fact = [i \in 1..Len(rows) |-> WithId(rows[i], "FactID", i)]]
    /\ committed = db
    /\ locks = NoLocks
    /\ pc = [c \in Callers |-> IF c = 1 THEN "loadFacts" ELSE "idle"]
    /\ modelXbrl = [c \in Callers |->
                       IF c = 1
                       THEN [EmptyModel EXCEPT !.blockDpmDBrecursion = TRUE,
                                               !.hasDoc = TRUE,
                                               !.uri = "a.xbrl",
                                               !.moduleURI = "modA"]
                       ELSE EmptyModel]
    /\ conn = [c \in Callers |->
                  IF c = 1
                  THEN [NoConn EXCEPT !.state = "open", !.mode = "load",
                                      !.loadFile = "a.xbrl", !.instanceId = 1]
                  ELSE NoConn]
    /\ exc = [c \in Callers |-> NULL]
    /\ outcome = [c \in Callers |-> NoOutcome]
    /\ log = [c \in Callers |-> <<>>]
    /\ calls = 1
    /\ pool = {}
    /\ KeyIdle

NextLoad == \E c \in {1} : loadFacts(c) \/ close(c)

SpecLoad == InitLoad /\ [][NextLoad]_vars

\* the fact rows stored for a.xbrl before the guarded calls
GuardFactRows ==
    {<<>>} \cup {<<WithId(r, "FactID", 1)>> :
                    r \in {x \in LoadFactRows : x.EntityID = "e1" /\ x.DatePeriodEnd = 9}}

\* an idle caller on a database that holds the instance of a.xbrl and its
\* module, so that the first call can already be a load that finds them
InitGuard ==
    /\ \E rows \in GuardFactRows :
          db = [EmptyDb(AllTables) EXCEPT
                   !.Module = << [ModuleID |-> 1, TaxonomyID |-> NULL, URI |-> "modA"] >>,
                   !.Instance = << [InstanceID |-> 1, ModuleID |-> 1,
                                    FileName |-> "a.xbrl", EntityCode |-> "e1",
                                    Period |-> 9] >>,
                   !.Fact = rows]
    /\ committed = db
    /\ locks = NoLocks
    /\ pc = [c \in Callers |-> "idle"]
    /\ modelXbrl = [c \in Callers |-> EmptyModel]
    /\ conn = [c \in Callers |-> NoConn]
    /\ exc = [c \in Callers |-> NULL]
    /\ outcome = [c \in Callers |-> NoOutcome]
    /\ log = [c \in Callers |-> <<>>]
    /\ calls = 0
    /\ pool = ConcDocs
    /\ KeyIdle

NextGuard == \E c \in {1} : Step(c)

SpecGuard == InitGuard /\ [][NextGuard]_vars

\* ------------------------------------------------------------------------
\* Properties
\* ------------------------------------------------------------------------
\* the elements of a sequence
Range(s) == {s[i] : i \in 1..Len(s)}

\* the number of non-null value columns of a row
NonNullCount(row) ==
    Cardinality({col \in {"NumericValue", "DateTimeValue", "BoolValue", "TextValue"} :
                    row[col] # None})

\* the facts of caller c's document that have a context, in document order
ContextFacts(c) ==
    SelectSeq(modelXbrl[c].facts, LAMBDA f : HasContext(modelXbrl[c].contexts, f))

\* the context ids of caller c's document with at least one typed dimension
TypedContextIds(c) ==
    {cx.id : cx \in {x \in Range(modelXbrl[c].contexts) :
                        \E d \in Range(x.qnameDims) : ~d.isExplicit}}

\* the rows of a table for an instance id, generated id column dropped
StoredRows(rows, idCol, instanceId) ==
    LET mine == InstanceRows(rows, instanceId)
    IN  [i \in 1..Len(mine) |-> IF idCol = NULL THEN mine[i] ELSE WithoutId(mine[i], idCol)]

\* the four dependent tables
DependentTables ==
    {"dCloseTableFact", "dOpenTableSheetsRow", "dProcessingContext", "dProcessingFact"}

\* the log positions of caller c with one of the operations
LogAt(c, ops) == {i \in 1..Len(log[c]) : log[c][i][1] \in ops}

\* caller c's insertion has written or is writing data points
Mutating(c) ==
    /\ pc[c] \notin {"idle", "except"}
    /\ LogAt(c, {"DELETE", "INSERT"}) # {}
    /\ LogAt(c, {"COMMIT"}) = {}

\* C1: after a second successful insertion of the same file name, the
\* Fact, dCloseTableFact and dProcessingFact tables hold, for that instance
\* id, exactly the rows of the second insertion
Inv_C1 ==
    \A c \in Callers :
        ( /\ pc[c] = "idle"
          /\ outcome[c].kind = "return"
          /\ conn[c].state = "closed"
          /\ conn[c].mode = "insert"
          /\ conn[c].instancePreviouslyInDB
          /\ \E r \in Range(db.Instance) :
                r.InstanceID = conn[c].instanceId /\ r.FileName = modelXbrl[c].uri )
        => /\ StoredRows(db.Fact, "FactID", conn[c].instanceId) = conn[c].dFacts
           /\ StoredRows(db.dCloseTableFact, NULL, conn[c].instanceId)
                  = conn[c].dCloseTableFacts
           /\ StoredRows(db.dProcessingFact, NULL, conn[c].instanceId)
                  = conn[c].dProcessingFacts

\* C2: the key written for a metric and a set of explicit (dimension,
\* member) pairs, the empty set included, decodes to the same metric and
\* exactly the same pairs
Inv_C2 ==
    ( /\ keyDec # <<>>
      /\ \A d \in Range(keyIn.qnameDims) : d.isExplicit )
    => /\ keyDec[1].conceptQn = keyIn.metric
       /\ keyDec[1].qnameDims =
              {<<d.dimensionQname, d.memberQname>> : d \in Range(keyIn.qnameDims)}

\* C3 as claimed: every typed-value row has exactly one of the four value
\* columns non-null
Inv_C3 ==
    \A c \in Callers : \A row \in Range(conn[c].dFacts) : NonNullCount(row) = 1

\* C3: every typed-value row has at most one of the four value columns
\* non-null: exactly one when the value of the fact is not null, none when
\* it is null, as for a nil fact
Thm_C3 ==
    \A c \in Callers :
        pc[c] = "insertFact" =>
            /\ Len(conn[c].dFacts) = Len(ContextFacts(c))
            /\ \A i \in 1..Len(conn[c].dFacts) :
                  NonNullCount(conn[c].dFacts[i]) =
                      IF Classify(ContextFacts(c)[i]).xValue = None THEN 0 ELSE 1

Wit_C3 ==
    /\ pc[1] = "insertFact"
    /\ \E row \in Range(conn[1].dFacts) : NonNullCount(row) = 0
    /\ \E row \in Range(conn[1].dFacts) : row.DateTimeValue # None

\* C4: a fact whose context has a typed dimension gets one typed-value row,
\* one processing row and no closed-table row; the closed-table rows are
\* those of the facts whose context has no typed dimension
Thm_C4 ==
    \A c \in Callers :
        pc[c] = "insertFact" =>
            LET fs == ContextFacts(c)
                closed == SelectSeq(fs, LAMBDA f : f.contextID \notin TypedContextIds(c))
                sortedDims == contextSortedDims(modelXbrl[c].contexts)
            IN  /\ Len(conn[c].dFacts) = Len(fs)
                /\ Len(conn[c].dProcessingFacts) = Len(fs)
                /\ \A i \in 1..Len(fs) :
                      /\ conn[c].dFacts[i].DataPointKey = metDimKey(fs[i], sortedDims)
                      /\ conn[c].dProcessingFacts[i].ContextID = fs[i].contextID
                      /\ conn[c].dProcessingFacts[i].Metric = met(fs[i])
                /\ Len(conn[c].dCloseTableFacts) = Len(closed)
                /\ \A j \in 1..Len(closed) :
                      conn[c].dCloseTableFacts[j].MetricDimMem =
                          metDimKey(closed[j], sortedDims)

Wit_C4 ==
    /\ pc[1] = "insertFact"
    /\ Len(conn[1].dFacts) = 2
    /\ Len(conn[1].dCloseTableFacts) = 1
    /\ modelXbrl[1].facts[1].contextID \in TypedContextIds(1)

\* C5: a caller that receives an exception from an opened connection
\* receives the first failure, after a rollback close was attempted and
\* with no commit after the failure
Thm_C5 ==
    \A c \in Callers :
        (pc[c] = "idle" /\ outcome[c].kind = "raise" /\ conn[c].state # "none") =>
            LET raised == LogAt(c, {"RAISE"})
                first == CHOOSE i \in raised : \A j \in raised : i <= j
            IN  /\ raised # {}
                /\ outcome[c].value = log[c][first][2]
                /\ \E j \in LogAt(c, {"ROLLBACK"}) : j > first
                /\ \A j \in LogAt(c, {"COMMIT"}) : j < first
                /\ conn[c].state = "closed"
                /\ ~InTransaction(locks, c)

Wit_C5 ==
    /\ pc[1] = "idle"
    /\ outcome[1] = [kind |-> "raise", value |-> "DbError"]
    /\ <<"ROLLBACK", "CloseError">> \in Range(log[1])
    /\ <<"INSERT", "Fact">> \in Range(log[1])

\* C6: with a required table absent or no document loaded, the insert
\* fails before any lock, delete, insert or commit, the database unchanged
Thm_C6 ==
    \A c \in {1} :
        /\ LogAt(c, {"LOCK", "UPSERT", "DELETE", "INSERT", "COMMIT"}) # {}
              => (XBRLDBTABLES \subseteq db.tables /\ modelXbrl[c].hasDoc)
        /\ ~(XBRLDBTABLES \subseteq db.tables)
              => pc[c] \in {"idle", "verifyTables", "except"}
        /\ ( /\ pc[c] \in {"idle", "except"}
             /\ exc[c] \in {"sqlDB:MissingTables", "xpgDB:MissingXbrlDocument"} )
              => /\ LogAt(c, {"LOCK", "UPSERT", "DELETE", "INSERT", "COMMIT"}) = {}
                 /\ db = committed
        /\ (pc[c] \notin {"idle", "verifyTables", "insertXbrl", "except"}
            /\ conn[c].mode = "insert")
              => modelXbrl[c].hasDoc

Wit_C6 ==
    /\ pc[1] = "idle"
    /\ outcome[1] = [kind |-> "raise", value |-> "xpgDB:MissingXbrlDocument"]
    /\ committed.Instance # <<>>

\* C7: an insertion is marked previously stored exactly when its file name
\* matches a stored Instance, whose id it then reuses, and there is one
\* Instance row per file name
Inv_C7 ==
    /\ \A i, j \in 1..Len(db.Instance) :
          i # j => db.Instance[i].FileName # db.Instance[j].FileName
    /\ \A c \in {1} :
          (pc[c] = "insertDataPoints" /\ conn[c].mode = "insert") =>
              /\ conn[c].instancePreviouslyInDB
                     <=> \E r \in Range(committed.Instance) : r.FileName = modelXbrl[c].uri
              /\ \E r \in Range(db.Instance) :
                     r.InstanceID = conn[c].instanceId /\ r.FileName = modelXbrl[c].uri

\* C8: the dimension key of a context is the same for every iteration
\* order of its dimension map, and its tokens are in strictly ascending
\* order
Thm_C8 ==
    keyOut # NoKey =>
        LET n == Len(keyIn.qnameDims)
            orders == {p \in [1..n -> Range(keyIn.qnameDims)] :
                          Range(p) = Range(keyIn.qnameDims)}
            written == IF keyOut.sortedDims = <<>> THEN <<>> ELSE keyOut.sortedDims[1]
            tokens == IF written = <<>> THEN <<>> ELSE Split(written, "|")
        IN  /\ \A p \in orders : dimKey(p, FALSE) = written
            /\ Len(tokens) = n
            /\ \A i, j \in 1..Len(tokens) : i < j => StrLess(tokens[i], tokens[j])

Wit_C8 ==
    /\ keyOut # NoKey
    /\ Len(keyIn.qnameDims) = 2
    /\ StrLess(DimToken(keyIn.qnameDims[2], FALSE), DimToken(keyIn.qnameDims[1], FALSE))

\* C9: in an insertion that found its instance, a delete on each of the
\* four dependent tables precedes every insert of a context or fact row and
\* leaves no row of that instance; an insertion that created its instance
\* issues no delete
Thm_C9 ==
    \A c \in Callers :
        LET tablesDeletedBefore(w) ==
                {log[c][i][2] : i \in {d \in LogAt(c, {"DELETE"}) : d < w}}
        IN  IF conn[c].instancePreviouslyInDB
            THEN /\ \A w \in LogAt(c, {"INSERT"}) :
                       DependentTables \subseteq tablesDeletedBefore(w)
                 /\ (pc[c] = "insertDataPoints" /\ conn[c].stmt > 4) =>
                       \A t \in DependentTables :
                           InstanceRows(db[t], conn[c].instanceId) = <<>>
            ELSE LogAt(c, {"DELETE"}) = {}

Wit_C9 ==
    /\ conn[1].instancePreviouslyInDB
    /\ pc[1] = "factRows"
    /\ InstanceRows(committed.dProcessingFact, conn[1].instanceId) # <<>>
    /\ InstanceRows(committed.dCloseTableFact, conn[1].instanceId) # <<>>

\* C10: an insertion holds the table lock of each dependent table before
\* its first delete or insert on it, and two insertions never mutate the
\* dependent tables at the same time
Inv_C10 ==
    /\ \A c \in Callers :
          \A i \in LogAt(c, {"DELETE", "INSERT"}) :
              log[c][i][2] \in DependentTables =>
                  \E j \in LogAt(c, {"LOCK"}) : j < i /\ log[c][j][2] = log[c][i][2]
    /\ \A c1, c2 \in Callers : (c1 # c2 /\ Mutating(c1)) => ~Mutating(c2)

\* the (dimension token string, entity id, period end) triple of a fact row
RowTriple(row) ==
    <<Partition(row.DataPointKey, "|")[3], row.EntityID, row.DatePeriodEnd>>

\* C11: a fact row whose triple equals that of an earlier row reuses that
\* row's context id and creates no context; the k-th distinct triple met
\* gets the context id k, so distinct triples never share an id
Thm_C11 ==
    \A c \in Callers :
        (pc[c] = "close" /\ conn[c].mode = "load") =>
            LET rows == InstanceRows(db.Fact, conn[c].instanceId)
                facts == conn[c].loaded.facts
                contexts == conn[c].loaded.contexts
                triples(n) == {RowTriple(rows[i]) : i \in 1..n}
            IN  /\ Len(facts) = Len(rows)
                /\ Len(contexts) = Cardinality(triples(Len(rows)))
                /\ \A k \in 1..Len(contexts) : contexts[k].id = k
                /\ \A i \in 1..Len(rows) :
                      /\ RowTriple(rows[i]) \notin triples(i - 1)
                            => facts[i].contextRef = Cardinality(triples(i - 1)) + 1
                      /\ contexts[facts[i].contextRef].key = RowTriple(rows[i])
                /\ \A i, j \in 1..Len(rows) :
                      (RowTriple(rows[i]) = RowTriple(rows[j]))
                          <=> (facts[i].contextRef = facts[j].contextRef)

Wit_C11 ==
    /\ pc[1] = "close"
    /\ conn[1].mode = "load"
    /\ Len(conn[1].loaded.facts) = 3
    /\ conn[1].loaded.facts[1].contextRef = 1
    /\ conn[1].loaded.facts[2].contextRef = 2
    /\ conn[1].loaded.facts[3].contextRef = 1

\* the fact has no resolvable concept, is not nil and has a local name that
\* starts with 'b'
BoolHinted(f) ==
    /\ f.concept = "none"
    /\ ~f.isNil
    /\ f.qname.localName # <<>>
    /\ f.qname.localName[1] = "b"

\* C12: the typed-value row of a non-nil fact without a concept whose local
\* name starts with 'b' holds boolean true in the boolean column when the
\* trimmed value is "true" or "1" and boolean false when it is "false" or
\* "0"; for any other token the trimmed string is in the text column and the
\* boolean column is null
Inv_C12 ==
    \A c \in Callers :
        pc[c] = "insertFact" =>
            \A i \in 1..Len(conn[c].dFacts) :
                LET f == ContextFacts(c)[i]
                    row == conn[c].dFacts[i]
                    x == Strip(f.value)
                IN  BoolHinted(f) =>
                        IF x \in {<<"t", "r", "u", "e">>, <<"1">>}
                        THEN row.BoolValue = PyBool(TRUE) /\ row.TextValue = None
                        ELSE IF x \in {<<"f", "a", "l", "s", "e">>, <<"0">>}
                        THEN row.BoolValue = PyBool(FALSE) /\ row.TextValue = None
                        ELSE row.TextValue = PyStr(x) /\ row.BoolValue = None

\* C13: loadXbrlFromDB sets blockDpmDBrecursion on the model when it has
\* found the instance and the module; no step of a call clears the flag,
\* whether the load goes on to succeed or to fail; and a call of insertIntoDB
\* on the same model while the flag is set opens no connection, sends no
\* statement, leaves the database as it is and returns None
Thm_C13 ==
    [][\A c \in {1} :
          /\ (pc[c] = "loadXbrlFromDB" /\ pc'[c] = "loadFacts")
                 => modelXbrl'[c].blockDpmDBrecursion
          /\ (calls' = calls /\ modelXbrl[c].blockDpmDBrecursion)
                 => modelXbrl'[c].blockDpmDBrecursion
          /\ ( /\ calls' = calls + 1
               /\ modelXbrl[c].blockDpmDBrecursion
               /\ modelXbrl'[c] = modelXbrl[c] )
                 => /\ conn'[c].state = "none"
                    /\ log'[c] = <<>>
                    /\ outcome'[c] = [kind |-> "return", value |-> "None"]
                    /\ pc'[c] = "idle"
                    /\ db' = db
                    /\ committed' = committed
                    /\ locks' = locks]_vars

Wit_C13 ==
    /\ calls > 1
    /\ pc[1] = "idle"
    /\ modelXbrl[1].blockDpmDBrecursion
    /\ modelXbrl[1].uri = "a.xbrl"
    /\ conn[1].state = "none"
    /\ log[1] = <<>>
    /\ outcome[1] = [kind |-> "return", value |-> "None"]
    /\ db = committed

====
